---------------------------- MODULE Spec2Model ----------------------------
(***************************************************************************)
(* A model of build_meta.py: merge_datasets (the fold of source documents  *)
(* into firms -> offices -> reviews, and its finalisation) and the         *)
(* statistics and rankings of build_analysis.                              *)
(*                                                                         *)
(* Python values are represented as follows.                               *)
(*   str          a sequence of code points, "ab" is <<97, 98>>            *)
(*   None (str)   the value None, which is no sequence of code points      *)
(*   number/None  <<n>> for the number n, <<>> for None                    *)
(*   dict         a record with every field the code reads; a key that is  *)
(*                absent reads as None, as dict.get does                   *)
(*   collection   [kind, items]: kind says whether the key is absent, null *)
(*                or holds the list items                                  *)
(*   ordered dict a sequence of entries, each with its key, in insertion   *)
(*                order                                                    *)
(***************************************************************************)
EXTENDS Integers, Sequences, FiniteSets, TLC

None == <<-1>>

\* Python truthiness of a str-or-None value: None and "" are falsy.
Truthy(s) == s # None /\ s # <<>>

\* x or "" for a str-or-None value
OrEmptyStr(s) == IF Truthy(s) THEN s ELSE <<>>

Min(a, b) == IF a < b THEN a ELSE b

\* e, with v evaluated first: a loop's accumulator is computed before the next
\* iteration starts, which bounds the depth of evaluation of a long fold.
Eager(v, e) == IF v = v THEN e ELSE e

-----------------------------------------------------------------------------
(* str methods and the regular expressions of the source, on code points *)

\* str.isspace for the characters of the model: tab, LF, VT, FF, CR, space
IsSpace(c) == c \in {9, 10, 11, 12, 13, 32}

\* [a-zA-Z0-9]
IsAlnum(c) == (c \in 48..57) \/ (c \in 65..90) \/ (c \in 97..122)

\* str.lower on one character (ASCII and the Latin-1 capitals)
LowerChar(c) ==
    IF (c \in 65..90) \/ ((c \in 192..222) /\ c # 215) THEN c + 32 ELSE c

Lower(s) == [i \in 1..Len(s) |-> LowerChar(s[i])]

RECURSIVE LStrip(_)
LStrip(s) == IF s # <<>> /\ IsSpace(Head(s)) THEN LStrip(Tail(s)) ELSE s

RECURSIVE RStrip(_)
RStrip(s) ==
    IF s # <<>> /\ IsSpace(s[Len(s)]) THEN RStrip(SubSeq(s, 1, Len(s) - 1)) ELSE s

\* str.strip()
Strip(s) == RStrip(LStrip(s))

\* re.sub(r"\s+", " ", s)
RECURSIVE CollapseSpaces(_)
CollapseSpaces(s) ==
    IF s = <<>> THEN <<>>
    ELSE IF IsSpace(Head(s))
         THEN <<32>> \o CollapseSpaces(LStrip(s))
         ELSE <<Head(s)>> \o CollapseSpaces(Tail(s))

\* s.startswith(p)
StartsWith(s, p) == Len(p) <= Len(s) /\ SubSeq(s, 1, Len(p)) = p

\* sub in s
Contains(s, sub) ==
    \E i \in 1..(Len(s) - Len(sub) + 1) : SubSeq(s, i, i + Len(sub) - 1) = sub

\* Python's order on str: lexicographic on code points
RECURSIVE StrLess(_, _)
StrLess(a, b) ==
    IF b = <<>> THEN FALSE
    ELSE IF a = <<>> THEN TRUE
    ELSE IF Head(a) # Head(b) THEN Head(a) < Head(b)
    ELSE StrLess(Tail(a), Tail(b))

\* str(n) for an int n >= 0
RECURSIVE StrOfNat(_)
StrOfNat(n) ==
    IF n < 10 THEN <<48 + n>> ELSE StrOfNat(n \div 10) \o <<48 + (n % 10)>>

\* unicodedata.normalize("NFKD", c) for one character: the accented letters
\* of the model decompose into the base letter and a combining mark.
NFKDChar(c) ==
    CASE c = 233 -> <<101, 769>>    \* e with acute
      [] c = 201 -> <<69, 769>>     \* E with acute
      [] c = 269 -> <<99, 780>>     \* c with caron
      [] OTHER   -> <<c>>

RECURSIVE NFKD(_)
NFKD(s) == IF s = <<>> THEN <<>> ELSE NFKDChar(Head(s)) \o NFKD(Tail(s))

\* unicodedata.combining(ch) != 0: the combining diacritical marks
Combining(c) == c \in 768..879

\* re.sub(r"[^a-zA-Z0-9]+", "-", s)
RECURSIVE SubNonAlnum(_)
SubNonAlnum(s) ==
    IF s = <<>> THEN <<>>
    ELSE IF IsAlnum(Head(s)) THEN <<Head(s)>> \o SubNonAlnum(Tail(s))
    ELSE IF Len(s) > 1 /\ ~IsAlnum(s[2]) THEN SubNonAlnum(Tail(s))
    ELSE <<45>> \o SubNonAlnum(Tail(s))

RECURSIVE StripHyphens(_)
StripHyphens(s) ==
    IF s # <<>> /\ Head(s) = 45 THEN StripHyphens(Tail(s))
    ELSE IF s # <<>> /\ s[Len(s)] = 45 THEN StripHyphens(SubSeq(s, 1, Len(s) - 1))
    ELSE s

\* re.sub(r"-{2,}", "-", s)
RECURSIVE CollapseHyphens(_)
CollapseHyphens(s) ==
    IF s = <<>> THEN <<>>
    ELSE IF Head(s) = 45 /\ Len(s) > 1 /\ s[2] = 45 THEN CollapseHyphens(Tail(s))
    ELSE <<Head(s)>> \o CollapseHyphens(Tail(s))

S_unknown == <<117, 110, 107, 110, 111, 119, 110>>    \* "unknown"

slugify(s) ==
    LET d == SelectSeq(NFKD(s), LAMBDA ch : ~Combining(ch))
        t == CollapseHyphens(Lower(StripHyphens(SubNonAlnum(d))))
    IN  IF t # <<>> THEN t ELSE S_unknown

\* re.sub(r"^https?://", "", w)
StripScheme(w) ==
    IF StartsWith(w, <<104, 116, 116, 112, 58, 47, 47>>)             \* "http://"
        THEN SubSeq(w, 8, Len(w))
    ELSE IF StartsWith(w, <<104, 116, 116, 112, 115, 58, 47, 47>>)   \* "https://"
        THEN SubSeq(w, 9, Len(w))
    ELSE w

\* s.split("/")[0]
RECURSIVE BeforeSlash(_)
BeforeSlash(s) ==
    IF s = <<>> \/ Head(s) = 47 THEN <<>> ELSE <<Head(s)>> \o BeforeSlash(Tail(s))

-----------------------------------------------------------------------------
(* Identity keys and record normalisation *)

P_Other    == <<79, 116, 104, 101, 114>>                            \* "Other"
P_Google   == <<71, 111, 111, 103, 108, 101, 32, 77, 97, 112, 115>> \* "Google Maps"
P_Firmy    == <<70, 105, 114, 109, 121, 46, 99, 122>>               \* "Firmy.cz"
P_Facebook == <<70, 97, 99, 101, 98, 111, 111, 107>>                \* "Facebook"

norm_platform(p) ==
    IF ~Truthy(p) THEN P_Other
    ELSE LET x == Lower(p)
         IN  IF Contains(x, <<103, 111, 111, 103, 108, 101>>) THEN P_Google      \* "google"
             ELSE IF Contains(x, <<102, 105, 114, 109, 121>>) THEN P_Firmy       \* "firmy"
             ELSE IF Contains(x, <<102, 97, 99, 101, 98, 111, 111, 107>>)        \* "facebook"
                  THEN P_Facebook
             ELSE P_Other

firm_key(f) ==
    LET w == Lower(Strip(OrEmptyStr(f.website)))
        n == CollapseSpaces(Lower(Strip(OrEmptyStr(f.firm_name))))
    IN  IF w # <<>> THEN <<119, 58>> \o w      \* "w:"
        ELSE <<110, 58>> \o n                  \* "n:"

office_key(o) ==
    LET city == Lower(Strip(OrEmptyStr(o.city)))
        addr == Lower(Strip(OrEmptyStr(o.address)))
    IN  IF city # <<>> /\ addr # <<>> THEN city \o <<124>> \o addr
        ELSE IF city # <<>> THEN city
        ELSE IF addr # <<>> THEN <<97, 100, 100, 114, 58>> \o addr     \* "addr:"
        ELSE S_unknown

norm_text(t) == Lower(CollapseSpaces(Strip(OrEmptyStr(t))))

\* hashlib.sha1(s).hexdigest(): an injective image of s that is never one of
\* the sentinels "no_text" and "no_url" (the tag 0 occurs in no other string).
sha1_hexdigest(s) == <<0>> \o s

\* "" if v is None else str(v), for a number-or-None value
StrOfNum(v) == IF v = <<>> THEN <<>> ELSE StrOfNat(v[1])

review_dedupe_key(r) ==
    LET plat   == norm_platform(r.platform)
        author == norm_text(r.author_name)
        dp     == OrEmptyStr(r.date_published)
        dr     == OrEmptyStr(r.date_raw)
        rv     == StrOfNum(r.rating_value)
        rs     == StrOfNum(r.rating_scale)
        text   == norm_text(r.review_text)
        url    == norm_text(r.source_url)
        h      == IF text # <<>> THEN sha1_hexdigest(text)
                  ELSE <<110, 111, 95, 116, 101, 120, 116>>       \* "no_text"
        uh     == IF url # <<>> THEN sha1_hexdigest(url)
                  ELSE <<110, 111, 95, 117, 114, 108>>            \* "no_url"
    IN  IF Truthy(r.review_id)
        THEN plat \o <<124, 114, 105, 100, 58>> \o r.review_id    \* "|rid:"
        ELSE plat \o <<124, 97, 58>> \o author                    \* "|a:"
                  \o <<124, 100, 112, 58>> \o dp                  \* "|dp:"
                  \o <<124, 100, 114, 58>> \o dr                  \* "|dr:"
                  \o <<124, 114, 58>> \o rv \o <<47>> \o rs       \* "|r:" "/"
                  \o <<124, 116, 58>> \o h                        \* "|t:"
                  \o <<124, 117, 58>> \o uh                       \* "|u:"

\* Variant of completeness_score: textual content carries no weight.
completeness_score_no_text(r) ==
    (IF Truthy(r.review_id) THEN 4 ELSE 0)
    + (IF Truthy(r.date_published) THEN 2 ELSE 0)
    + (IF r.rating_value # <<>> /\ r.rating_scale # <<>> THEN 2 ELSE 0)
    + (IF Truthy(r.author_name) THEN 1 ELSE 0)
    + (IF Truthy(r.source_url) THEN 1 ELSE 0)

completeness_score(r) ==
    (IF Truthy(r.review_id) THEN 4 ELSE 0)
    + (IF Truthy(r.date_published) THEN 2 ELSE 0)
    + (IF r.rating_value # <<>> /\ r.rating_scale # <<>> THEN 2 ELSE 0)
    + (IF Strip(OrEmptyStr(r.review_text)) # <<>> THEN 2 ELSE 0)
    + (IF Truthy(r.author_name) THEN 1 ELSE 0)
    + (IF Truthy(r.source_url) THEN 1 ELSE 0)

normalize_review(r) == [r EXCEPT !.platform = norm_platform(r.platform)]

normalize_profile(p) ==
    [platform |-> norm_platform(p.platform), source_url |-> p.source_url]

-----------------------------------------------------------------------------
(* Collections that may be absent or null *)

EmptyList == [kind |-> "list", items |-> <<>>]

\* Variant of GetOrEmpty: d.get(key, []), a null value is passed on.
GetDefaultEmpty(c) == IF c.kind = "absent" THEN EmptyList ELSE c

\* d.get(key, []) or []: an absent key reads as the default [], and a null
\* (or empty) value is replaced by [].
GetOrEmpty(c) == IF c.kind = "list" THEN c ELSE EmptyList

\* "for x in v" raises TypeError unless v is a list.
NotIterable(v) == v.kind # "list"

Items(v) == IF v.kind = "list" THEN v.items ELSE <<>>

\* Position of key k in the ordered dict m, 0 if absent.
IndexOfKey(m, k) ==
    IF \E i \in 1..Len(m) : m[i].key = k
    THEN CHOOSE i \in 1..Len(m) : m[i].key = k
    ELSE 0

-----------------------------------------------------------------------------
(* merge_datasets: the fold *)

\* Variant of MergeReview: an equally complete incoming review also replaces.
MergeReviewOnTie(rmap, r) ==
    LET nr == normalize_review(r)
        k  == review_dedupe_key(nr)
        i  == IndexOfKey(rmap, k)
    IN  IF i = 0 THEN Append(rmap, [key |-> k, review |-> nr])
        ELSE IF completeness_score(nr) >= completeness_score(rmap[i].review)
             THEN [rmap EXCEPT ![i].review = nr]
             ELSE rmap

\* Variant of MergeReview: the stored review is never replaced.
MergeReviewKeepStored(rmap, r) ==
    LET nr == normalize_review(r)
        k  == review_dedupe_key(nr)
        i  == IndexOfKey(rmap, k)
    IN  IF i = 0 THEN Append(rmap, [key |-> k, review |-> nr]) ELSE rmap

\* Variant of MergeReview: every review is stored, whatever its key.
MergeReviewKeepAll(rmap, r) ==
    LET nr == normalize_review(r)
    IN  Append(rmap, [key |-> review_dedupe_key(nr), review |-> nr])

\* One review of an office: insert it under its key, or replace the stored
\* review when the incoming one is strictly more complete.
MergeReview(rmap, r) ==
    LET nr == normalize_review(r)
        k  == review_dedupe_key(nr)
        i  == IndexOfKey(rmap, k)
    IN  IF i = 0 THEN Append(rmap, [key |-> k, review |-> nr])
        ELSE IF completeness_score(nr) > completeness_score(rmap[i].review)
             THEN [rmap EXCEPT ![i].review = nr]
             ELSE rmap

RECURSIVE FoldReviews(_, _)
FoldReviews(rmap, rs) ==
    IF rs = <<>> THEN rmap
    ELSE LET next == MergeReview(rmap, Head(rs))
         IN  Eager(next, FoldReviews(next, Tail(rs)))

\* One platform profile: kept only when it carries a source URL.
MergeProfile(pps, pp) ==
    LET npp == normalize_profile(pp)
    IN  IF Truthy(npp.source_url) THEN Append(pps, npp) ELSE pps

RECURSIVE FoldProfiles(_, _)
FoldProfiles(pps, ps) ==
    IF ps = <<>> THEN pps
    ELSE LET next == MergeProfile(pps, Head(ps))
         IN  Eager(next, FoldProfiles(next, Tail(ps)))

\* Variant of MergeAddress: the last non-empty address wins.
MergeAddressLast(cur, o) == IF Truthy(o.address) THEN o.address ELSE cur

\* The city and the address of an office after observing the record o:
\* set only while still unset.
MergeCity(cur, o) == IF ~Truthy(cur) /\ Truthy(o.city) THEN o.city ELSE cur

MergeAddress(cur, o) == IF ~Truthy(cur) /\ Truthy(o.address) THEN o.address ELSE cur

\* One office record of a firm.
MergeOffice(offices, o) ==
    LET ok   == office_key(o)
        i0   == IndexOfKey(offices, ok)
        offs == IF i0 = 0
                THEN Append(offices, [key |-> ok, city |-> o.city, address |-> o.address,
                                      platform_profiles |-> <<>>, reviews_map |-> <<>>])
                ELSE offices
        i    == IndexOfKey(offs, ok)
        mo   == offs[i]
    IN  [offs EXCEPT ![i] =
            [key |-> ok, city |-> MergeCity(mo.city, o),
             address |-> MergeAddress(mo.address, o),
             platform_profiles |->
                 FoldProfiles(mo.platform_profiles, Items(GetOrEmpty(o.platform_profiles))),
             reviews_map |-> FoldReviews(mo.reviews_map, Items(GetOrEmpty(o.reviews)))]]

RECURSIVE FoldOffices(_, _)
FoldOffices(offices, os) ==
    IF os = <<>> THEN offices
    ELSE LET next == MergeOffice(offices, Head(os))
         IN  Eager(next, FoldOffices(next, Tail(os)))

\* The display name after observing the firm record f.
MergeName(cur, f) ==
    IF Truthy(f.firm_name) /\ (~Truthy(cur) \/ Len(f.firm_name) > Len(cur))
    THEN f.firm_name ELSE cur

\* The website after observing the firm record f.
MergeWebsite(cur, f) == IF ~Truthy(cur) /\ Truthy(f.website) THEN f.website ELSE cur

\* One firm record of a source.
MergeFirm(fmap, f) ==
    LET fk == firm_key(f)
        i0 == IndexOfKey(fmap, fk)
        fm == IF i0 = 0
              THEN Append(fmap, [key |-> fk, firm_name |-> f.firm_name,
                                 website |-> f.website,
                                 firm_ids |-> IF Truthy(f.firm_id) THEN {f.firm_id} ELSE {},
                                 offices |-> <<>>])
              ELSE fmap
        i  == IndexOfKey(fm, fk)
        mf == fm[i]
    IN  [fm EXCEPT ![i] =
            [key |-> fk,
             firm_name |-> MergeName(mf.firm_name, f),
             website |-> MergeWebsite(mf.website, f),
             firm_ids |-> IF Truthy(f.firm_id) THEN mf.firm_ids \cup {f.firm_id}
                          ELSE mf.firm_ids,
             offices |-> FoldOffices(mf.offices, Items(GetOrEmpty(f.offices)))]]

RECURSIVE FoldFirms(_, _)
FoldFirms(fmap, fs) ==
    IF fs = <<>> THEN fmap
    ELSE LET next == MergeFirm(fmap, Head(fs))
         IN  Eager(next, FoldFirms(next, Tail(fs)))

\* One source document.
MergeSource(fmap, ds) == FoldFirms(fmap, Items(GetOrEmpty(ds.firms)))

RECURSIVE FoldSources(_, _)
FoldSources(fmap, dss) ==
    IF dss = <<>> THEN fmap
    ELSE LET next == MergeSource(fmap, Head(dss))
         IN  Eager(next, FoldSources(next, Tail(dss)))

\* Whether folding a record iterates a value that is no list (TypeError).
OfficeRaises(o) ==
    NotIterable(GetOrEmpty(o.platform_profiles)) \/ NotIterable(GetOrEmpty(o.reviews))

FirmRaises(f) ==
    \/ NotIterable(GetOrEmpty(f.offices))
    \/ \E i \in 1..Len(Items(GetOrEmpty(f.offices))) :
           OfficeRaises(Items(GetOrEmpty(f.offices))[i])

SourceRaises(ds) ==
    \/ NotIterable(GetOrEmpty(ds.firms))
    \/ \E i \in 1..Len(Items(GetOrEmpty(ds.firms))) :
           FirmRaises(Items(GetOrEmpty(ds.firms))[i])

-----------------------------------------------------------------------------
(* merge_datasets: the finalisation *)

REVIEWS_PER_FIRM_MIN == 10

\* The order of sorted(..., key=lambda x: (len(x), x)) on distinct ids
IdKeyLess(x, y) == Len(x) < Len(y) \/ (Len(x) = Len(y) /\ StrLess(x, y))

\* sorted(fid_candidates, key=lambda x: (len(x), x))[0]
FirstById(cands) == CHOOSE x \in cands : \A y \in cands \ {x} : IdKeyLess(x, y)

\* The website up to its first "/", the scheme removed
WebsiteHost(w) == BeforeSlash(StripScheme(w))

\* The slug the firm id falls back to
BaseSlug(f) ==
    IF Truthy(f.website) THEN slugify(WebsiteHost(f.website))
    ELSE slugify(IF Truthy(f.firm_name) THEN f.firm_name ELSE S_unknown)

FirmId(f) == IF f.firm_ids # {} THEN FirstById(f.firm_ids) ELSE BaseSlug(f)

\* Variant of DedupProfiles: every stored profile is exported.
KeepProfiles(pps, seen) == pps

\* The profiles of an office, deduplicated by (platform, source_url),
\* first-seen order preserved
RECURSIVE DedupProfiles(_, _)
DedupProfiles(pps, seen) ==
    IF pps = <<>> THEN <<>>
    ELSE LET pp  == Head(pps)
             key == <<pp.platform, pp.source_url>>
         IN  IF key \in seen THEN DedupProfiles(Tail(pps), seen)
             ELSE IF Truthy(pp.source_url)
                  THEN <<pp>> \o DedupProfiles(Tail(pps), seen \cup {key})
                  ELSE DedupProfiles(Tail(pps), seen)

\* list(o["reviews_map"].values())
MapValues(rmap) == [i \in 1..Len(rmap) |-> rmap[i].review]

\* sorted(list(S)) for a set S of str
RECURSIVE SortedStrs(_)
SortedStrs(S) ==
    IF S = {} THEN <<>>
    ELSE LET m == CHOOSE x \in S : \A y \in S \ {x} : StrLess(x, y)
         IN  <<m>> \o SortedStrs(S \ {m})

OfficeObj(o) ==
    [city |-> IF Truthy(o.city) THEN o.city ELSE None,
     address |-> IF Truthy(o.address) THEN o.address ELSE None,
     platform_profiles |-> DedupProfiles(o.platform_profiles, {}),
     reviews |-> MapValues(o.reviews_map)]

RECURSIVE SumSeq(_)
SumSeq(s) == IF s = <<>> THEN 0 ELSE Head(s) + SumSeq(Tail(s))

CollectionSummary(f) ==
    LET total == SumSeq([i \in 1..Len(f.offices) |-> Len(f.offices[i].reviews_map)])
        platforms == UNION {{f.offices[i].reviews_map[j].review.platform :
                                 j \in 1..Len(f.offices[i].reviews_map)} :
                            i \in 1..Len(f.offices)}
                      \ {None, <<>>}
        cities == {f.offices[i].city : i \in 1..Len(f.offices)} \ {None, <<>>}
    IN  [reviews_collected_total |-> total,
         platforms_used |-> SortedStrs(platforms),
         cities_covered |-> SortedStrs(cities),
         warnings |-> IF total = 0 THEN <<"No reviews present in merged sources.">>
                      ELSE <<>>]

FirmObj(f) ==
    [firm_id |-> FirmId(f),
     firm_name |-> f.firm_name,
     offices |-> [i \in 1..Len(f.offices) |-> OfficeObj(f.offices[i])],
     collection_summary |-> CollectionSummary(f),
     website |-> IF Truthy(f.website) THEN f.website ELSE None]

MergedFirms(fmap) == [i \in 1..Len(fmap) |-> FirmObj(fmap[i])]

\* Variant of BelowMin: a firm with exactly the minimum is listed too.
BelowOrAtMin(x) == x.collection_summary.reviews_collected_total <= REVIEWS_PER_FIRM_MIN

BelowMin(x) == x.collection_summary.reviews_collected_total < REVIEWS_PER_FIRM_MIN

DatasetQuality(firms) ==
    [firms_collected |-> Len(firms),
     reviews_collected |->
         SumSeq([i \in 1..Len(firms) |-> firms[i].collection_summary.reviews_collected_total]),
     firms_below_min_reviews |->
         LET below == SelectSeq(firms, BelowMin)
         IN  [i \in 1..Len(below) |-> below[i].firm_id],
     known_limitations |->
         <<"Merged from provided JSON sources; public review availability varies widely by firm.">>]

\* merge_datasets as a function of its argument (no collection raises)
merge_datasets(dss) ==
    LET firms == MergedFirms(FoldSources(<<>>, dss))
    IN  [firms |-> firms, dataset_quality |-> DatasetQuality(firms)]

-----------------------------------------------------------------------------
(* build_analysis: per-firm statistics and the two rankings *)

RECURSIVE GCD(_, _)
GCD(a, b) == IF b = 0 THEN a ELSE GCD(b, a % b)

Abs(n) == IF n < 0 THEN -n ELSE n

\* Exact fractions in lowest terms stand for the floats of the source:
\* [num, den] with den > 0.
Rat(n, d) ==
    LET g == GCD(Abs(n), Abs(d))
        sgn == IF d < 0 THEN -1 ELSE 1
    IN  [num |-> sgn * (n \div g), den |-> sgn * (d \div g)]

RatLess(a, b) == a.num * b.den < b.num * a.den

RatEq(a, b) == a.num * b.den = b.num * a.den

RatAdd(a, b) == Rat(a.num * b.den + b.num * a.den, a.den * b.den)

RECURSIVE RatSum(_)
RatSum(s) == IF s = <<>> THEN Rat(0, 1) ELSE RatAdd(Head(s), RatSum(Tail(s)))

\* sum(xs) / len(xs) if xs else None
Average(xs) ==
    IF xs = <<>> THEN <<>>
    ELSE LET t == RatSum(xs) IN <<Rat(t.num, t.den * Len(xs))>>

\* round(x, 3), in thousandths (round half to even)
Round3(q) ==
    LET n == q.num * 1000
        f == n \div q.den
        r == n % q.den
    IN  IF 2 * r > q.den \/ (2 * r = q.den /\ f % 2 = 1) THEN f + 1 ELSE f

\* (rv / rs) * 5 when both are numbers and rs is not 0, else None
rating_to5(r) ==
    IF r.rating_value # <<>> /\ r.rating_scale # <<>> /\ r.rating_scale[1] # 0
    THEN <<Rat(r.rating_value[1] * 5, r.rating_scale[1])>>
    ELSE <<>>

RECURSIVE Flatten(_)
Flatten(ss) == IF ss = <<>> THEN <<>> ELSE Head(ss) \o Flatten(Tail(ss))

\* The reviews of a finalized firm, office by office
FirmReviews(f) == Flatten([i \in 1..Len(f.offices) |-> f.offices[i].reviews])

HasRating(r) == rating_to5(r) # <<>>

HasScore(r) == r.sentiment_score # <<>>

FirmStat(f) ==
    LET reviews    == FirmReviews(f)
        rated      == SelectSeq(reviews, HasRating)
        ratings    == [i \in 1..Len(rated) |-> rating_to5(rated[i])[1]]
        scored     == SelectSeq(reviews, HasScore)
        sentiments == [i \in 1..Len(scored) |-> Rat(scored[i].sentiment_score[1], 1)]
    IN  [firm_id |-> f.firm_id,
         firm_name |-> f.firm_name,
         reviews_n |-> Len(reviews),
         ratings_n |-> Len(ratings),
         avg_rating_5 |-> Average(ratings),
         scored_n |-> Len(sentiments),
         avg_sentiment_score |-> Average(sentiments)]

FirmStats(firms) == [i \in 1..Len(firms) |-> FirmStat(firms[i])]

RATING_RANK_MIN == 3
SCORED_RANK_MIN == 3
RATING_RANK_CAP == 30
SCORED_RANK_CAP == 30

\* The order of the sort key (-average, -sample size, firm_name or "")
RankKeyLess(a, b) ==
    \/ RatLess(b.avg, a.avg)
    \/ /\ RatEq(a.avg, b.avg)
       /\ \/ a.n > b.n
          \/ a.n = b.n /\ StrLess(a.name, b.name)

\* list.sort is stable: x goes before the first element whose key is greater.
RECURSIVE InsertByKey(_, _)
InsertByKey(sorted, x) ==
    IF sorted = <<>> THEN <<x>>
    ELSE IF RankKeyLess(x.k, Head(sorted).k) THEN <<x>> \o sorted
    ELSE <<Head(sorted)>> \o InsertByKey(Tail(sorted), x)

RECURSIVE SortByKey(_, _)
SortByKey(sorted, rest) ==
    IF rest = <<>> THEN sorted
    ELSE LET next == InsertByKey(sorted, Head(rest))
         IN  Eager(next, SortByKey(next, Tail(rest)))

\* Variant of QualifiesByRating: more than the minimum is required.
QualifiesAboveMin(x) == x.ratings_n > RATING_RANK_MIN

QualifiesByRating(x) == x.ratings_n >= RATING_RANK_MIN /\ x.avg_rating_5 # <<>>

QualifiesByScore(x) == x.scored_n >= SCORED_RANK_MIN /\ x.avg_sentiment_score # <<>>

RankByRating(stats) ==
    LET sel == SelectSeq(stats, QualifiesByRating)
    IN  SortByKey(<<>>, [i \in 1..Len(sel) |->
            [k |-> [avg |-> sel[i].avg_rating_5[1], n |-> sel[i].ratings_n,
                    name |-> OrEmptyStr(sel[i].firm_name)],
             x |-> sel[i]]])

RankBySent(stats) ==
    LET sel == SelectSeq(stats, QualifiesByScore)
    IN  SortByKey(<<>>, [i \in 1..Len(sel) |->
            [k |-> [avg |-> sel[i].avg_sentiment_score[1], n |-> sel[i].scored_n,
                    name |-> OrEmptyStr(sel[i].firm_name)],
             x |-> sel[i]]])

ByAvgRating5(stats) ==
    LET top == SubSeq(RankByRating(stats), 1, Min(RATING_RANK_CAP, Len(RankByRating(stats))))
    IN  [i \in 1..Len(top) |->
            [firm_id |-> top[i].x.firm_id,
             firm_name |-> top[i].x.firm_name,
             avg_rating_5 |-> Round3(top[i].x.avg_rating_5[1]),
             ratings_n |-> top[i].x.ratings_n,
             reviews_n |-> top[i].x.reviews_n]]

ByAvgSentimentScore(stats) ==
    LET top == SubSeq(RankBySent(stats), 1, Min(SCORED_RANK_CAP, Len(RankBySent(stats))))
    IN  [i \in 1..Len(top) |->
            [firm_id |-> top[i].x.firm_id,
             firm_name |-> top[i].x.firm_name,
             avg_sentiment_score |-> Round3(top[i].x.avg_sentiment_score[1]),
             scored_n |-> top[i].x.scored_n,
             reviews_n |-> top[i].x.reviews_n]]

HasText(r) == Strip(OrEmptyStr(r.review_text)) # <<>>

AllReviews(firms) == Flatten([i \in 1..Len(firms) |-> FirmReviews(firms[i])])

Coverage(firms, dq) ==
    [firms_total |-> dq.firms_collected,
     reviews_total |-> dq.reviews_collected,
     reviews_with_text |-> Len(SelectSeq(AllReviews(firms), HasText)),
     reviews_with_rating |-> Len(SelectSeq(AllReviews(firms), HasRating)),
     platforms_used |->
         SortedStrs({AllReviews(firms)[i].platform : i \in 1..Len(AllReviews(firms))}
                    \ {None, <<>>}),
     cities_covered |->
         SortedStrs(UNION {{firms[i].offices[j].city : j \in 1..Len(firms[i].offices)} :
                           i \in 1..Len(firms)} \ {None, <<>>})]

\* r.get("sentiment_label") or "unknown"
LabelOf(r) == IF Truthy(r.sentiment_label) THEN r.sentiment_label ELSE S_unknown

\* dict(sentiment_dist): label -> number of reviews
SentimentDistribution(firms) ==
    LET rs == AllReviews(firms)
        labels == {LabelOf(rs[i]) : i \in 1..Len(rs)}
    IN  [l \in labels |-> Cardinality({i \in 1..Len(rs) : LabelOf(rs[i]) = l})]

-----------------------------------------------------------------------------
(* build_analysis: theme extraction *)

\* The keyword taxonomy, in declaration order; the keywords are code points.
TAX ==
    <<
      [category |-> "communication_responsiveness",
       keywords |-> <<
           <<107, 111, 109, 117, 110, 105, 107>>,    \* komunik
           <<110, 101, 111, 100, 112, 111, 118>>,    \* neodpov
           <<101, 109, 97, 105, 108>>,    \* email
           <<116, 101, 108, 101, 102, 111, 110>>,    \* telefon
           <<99, 97, 108, 108>>,    \* call
           <<114, 101, 112, 108, 121>>,    \* reply
           <<114, 101, 115, 112, 111, 110, 100>>,    \* respond
           <<100, 111, 118, 111, 108, 97, 116>>    \* dovolat
       >>],
      [category |-> "professionalism_competence",
       keywords |-> <<
           <<112, 114, 111, 102, 101, 115, 105, 111, 110>>,    \* profesion
           <<101, 120, 112, 101, 114, 116>>,    \* expert
           <<107, 118, 97, 108, 105, 116>>,    \* kvalit
           <<112, 114, 111, 102, 101, 115, 115, 105, 111, 110, 97, 108, 115>>,    \* professionals
           <<101, 120, 99, 101, 108, 108, 101, 110, 116>>,    \* excellent
           <<98, 114, 105, 108, 108, 105, 97, 110, 116>>,    \* brilliant
           <<110, 101, 112, 114, 111, 102, 101, 115, 105, 111, 110>>,    \* neprofesion
           <<108, 97, 106, 100>>    \* lajd
       >>],
      [category |-> "ethics_trust",
       keywords |-> <<
           <<101, 116, 105, 107, 97>>,    \* etika
           <<101, 116, 104, 105, 99>>,    \* ethic
           <<110, 101, 102, 233, 114>>,    \* nef?r
           <<112, 111, 100, 118, 111, 100>>,    \* podvod
           <<108, 382, 105>>,    \* l?i
           <<108, 105, 101, 115>>,    \* lies
           <<115, 108, 97, 110, 100, 101, 114>>,    \* slander
           <<100, 105, 114, 116, 121>>,    \* dirty
           <<122, 110, 101, 117, 382>>,    \* zneu?
           <<122, 97, 116, 97, 106, 117, 106>>,    \* zatajuj
           <<110, 101, 115, 101, 114, 105, 243, 122>>,    \* neseri?z
           <<119, 105, 116, 104, 111, 117, 116, 32, 101, 116, 104, 105, 99, 115>>    \* without ethics
       >>],
      [category |-> "fees_value_transparency",
       keywords |-> <<
           <<99, 101, 110, 97>>,    \* cena
           <<110, 225, 107, 108, 97, 100>>,    \* n?klad
           <<99, 111, 115, 116>>,    \* cost
           <<102, 101, 101, 115>>,    \* fees
           <<112, 114, 105, 99, 101>>,    \* price
           <<122, 225, 108, 111, 104, 97>>,    \* z?loha
           <<112, 114, 97, 99, 104, 121>>,    \* prachy
           <<112, 101, 110, 237, 122, 101>>,    \* pen?ze
           <<118, 97, 108, 117, 101>>,    \* value
           <<102, 105, 110, 97, 110, 99, 101>>,    \* finance
           <<109, 97, 106, 101, 116, 101, 107>>    \* majetek
       >>],
      [category |-> "speed_timeliness",
       keywords |-> <<
           <<114, 121, 99, 104, 108>>,    \* rychl
           <<102, 97, 115, 116>>,    \* fast
           <<100, 101, 108, 97, 121>>,    \* delay
           <<122, 112, 111, 382, 100>>,    \* zpo?d
           <<114, 111, 107, 121>>,    \* roky
           <<108, 97, 116, 101>>,    \* late
           <<112, 111, 122, 100>>,    \* pozd
           <<110, 105, 107, 97, 109, 32, 115, 101, 32, 110, 101, 112, 111, 104, 110, 117, 108>>    \* nikam se nepohnul
       >>],
      [category |-> "outcome_effectiveness",
       keywords |-> <<
           <<118, 121, 345, 101, 353>>,    \* vy?e?
           <<115, 111, 108, 117, 116, 105, 111, 110>>,    \* solution
           <<104, 101, 108, 112>>,    \* help
           <<112, 111, 109, 111, 99>>,    \* pomoc
           <<110, 101, 112, 111, 109, 111, 104>>,    \* nepomoh
           <<114, 101, 115, 117, 108, 116>>,    \* result
           <<115, 117, 99, 99, 101, 115, 115>>,    \* success
           <<115, 112, 114, 97, 118, 101, 100, 108, 110, 111, 115, 116>>,    \* spravedlnost
           <<112, 111, 107, 114, 111, 107>>    \* pokrok
       >>],
      [category |-> "empathy_human_approach",
       keywords |-> <<
           <<112, 345, 237, 115, 116, 117, 112>>,    \* p??stup
           <<104, 117, 109, 97, 110>>,    \* human
           <<97, 114, 114, 111, 103>>,    \* arrog
           <<97, 114, 111, 103, 97, 110, 116>>,    \* arogant
           <<112, 111, 110, 105, 382>>,    \* poni?
           <<122, 101, 115, 109, 283, 353>>,    \* zesm??
           <<117, 110, 112, 108, 101, 97, 115, 97, 110, 116>>,    \* unpleasant
           <<114, 101, 99, 101, 112, 116, 105, 111, 110>>    \* reception
       >>],
      [category |-> "enforcement_debt_mass_mail",
       keywords |-> <<
           <<100, 108, 117, 104>>,    \* dluh
           <<118, 121, 109, 225, 104>>,    \* vym?h
           <<101, 120, 101, 107, 117, 99>>,    \* exekuc
           <<112, 111, 106, 105, 115, 116>>,    \* pojist
           <<112, 345, 101, 100, 382, 97, 108, 111, 98>>,    \* p?ed?alob
           <<97, 117, 116, 111, 109, 97, 116, 105, 122>>,    \* automatiz
           <<112, 105, 99, 114, 105, 103, 104, 116, 115>>,    \* picrights
           <<99, 111, 112, 121, 114, 105, 103, 104, 116>>,    \* copyright
           <<109, 97, 115, 115>>,    \* mass
           <<116, 104, 114, 101, 97, 116>>    \* threat
       >>]
    >>

\* The categories whose keywords occur in the normalised text, at most 3
categorize(text) ==
    LET t == norm_text(text)
        hit(c) == \E j \in 1..Len(c.keywords) : Contains(t, Lower(c.keywords[j]))
        out == SelectSeq(TAX, hit)
    IN  IF t = <<>> THEN <<>>
        ELSE [i \in 1..Min(3, Len(out)) |-> out[i].category]

\* re.findall(r"\S+", s)
RECURSIVE Words(_)
Words(s) ==
    IF s = <<>> THEN <<>>
    ELSE IF IsSpace(Head(s)) THEN Words(LStrip(s))
    ELSE LET n == IF \E i \in 1..Len(s) : IsSpace(s[i])
                  THEN (CHOOSE i \in 1..Len(s) :
                            IsSpace(s[i]) /\ \A j \in 1..(i - 1) : ~IsSpace(s[j])) - 1
                  ELSE Len(s)
         IN  <<SubSeq(s, 1, n)>> \o Words(SubSeq(s, n + 1, Len(s)))

\* " ".join(ws)
RECURSIVE JoinWords(_)
JoinWords(ws) ==
    IF ws = <<>> THEN <<>>
    ELSE IF Len(ws) = 1 THEN ws[1]
    ELSE ws[1] \o <<32>> \o JoinWords(Tail(ws))

EXCERPT_MAX_WORDS == 25

\* The first words of the text, None when there are none
excerpt(text) ==
    LET words == Words(Strip(OrEmptyStr(text)))
    IN  IF words = <<>> THEN None
        ELSE JoinWords(SubSeq(words, 1, Min(EXCERPT_MAX_WORDS, Len(words))))

\* A Counter: entries [category, count] in the order of first increment
CounterAdd(cnt, c) ==
    IF \E i \in 1..Len(cnt) : cnt[i].category = c
    THEN [i \in 1..Len(cnt) |->
             IF cnt[i].category = c THEN [cnt[i] EXCEPT !.count = @ + 1] ELSE cnt[i]]
    ELSE Append(cnt, [category |-> c, count |-> 1])

RECURSIVE CounterAddAll(_, _)
CounterAddAll(cnt, cs) ==
    IF cs = <<>> THEN cnt
    ELSE LET next == CounterAdd(cnt, Head(cs))
         IN  Eager(next, CounterAddAll(next, Tail(cs)))

\* The counter of the categories of the reviews labelled lab
RECURSIVE CountThemes(_, _, _)
CountThemes(cnt, reviews, lab) ==
    IF reviews = <<>> THEN cnt
    ELSE LET next == IF LabelOf(Head(reviews)) = lab
                     THEN CounterAddAll(cnt,
                              categorize(OrEmptyStr(Head(reviews).review_text)))
                     ELSE cnt
         IN  Eager(next, CountThemes(next, Tail(reviews), lab))

QUOTES_MAX == 4

\* The excerpts of the first reviews labelled lab that have one
RECURSIVE Quotes(_, _, _)
Quotes(qs, reviews, lab) ==
    IF reviews = <<>> THEN qs
    ELSE LET ex   == excerpt(OrEmptyStr(Head(reviews).review_text))
             next == IF LabelOf(Head(reviews)) = lab /\ Truthy(ex) /\ Len(qs) < QUOTES_MAX
                     THEN Append(qs, ex) ELSE qs
         IN  Eager(next, Quotes(next, Tail(reviews), lab))

\* Counter.most_common(n): by descending count, ties in insertion order
RECURSIVE InsertByCount(_, _)
InsertByCount(sorted, x) ==
    IF sorted = <<>> THEN <<x>>
    ELSE IF x.count > Head(sorted).count THEN <<x>> \o sorted
    ELSE <<Head(sorted)>> \o InsertByCount(Tail(sorted), x)

RECURSIVE SortByCount(_, _)
SortByCount(sorted, rest) ==
    IF rest = <<>> THEN sorted
    ELSE LET next == InsertByCount(sorted, Head(rest))
         IN  Eager(next, SortByCount(next, Tail(rest)))

MostCommon(cnt, n) ==
    LET s == SortByCount(<<>>, cnt) IN SubSeq(s, 1, Min(n, Len(s)))

S_positive == <<112, 111, 115, 105, 116, 105, 118, 101>>    \* "positive"
S_negative == <<110, 101, 103, 97, 116, 105, 118, 101>>     \* "negative"

FIRM_TOP_CATEGORIES == 5
OVERALL_TOP_CATEGORIES == 10

FirmThemes(f) ==
    LET reviews == FirmReviews(f)
    IN  [firm_id |-> f.firm_id,
         top_positive_categories |->
             MostCommon(CountThemes(<<>>, reviews, S_positive), FIRM_TOP_CATEGORIES),
         top_negative_categories |->
             MostCommon(CountThemes(<<>>, reviews, S_negative), FIRM_TOP_CATEGORIES),
         representative_quotes_positive |-> Quotes(<<>>, reviews, S_positive),
         representative_quotes_negative |-> Quotes(<<>>, reviews, S_negative)]

\* Only the firms with a counted positive or negative category are listed.
HasThemes(f) ==
    CountThemes(<<>>, FirmReviews(f), S_positive) # <<>>
    \/ CountThemes(<<>>, FirmReviews(f), S_negative) # <<>>

ThemesByFirm(firms) ==
    LET sel == SelectSeq(firms, HasThemes)
    IN  [i \in 1..Len(sel) |-> FirmThemes(sel[i])]

\* The counter over the reviews of all firms, firm by firm
RECURSIVE CountThemesOverall(_, _, _)
CountThemesOverall(cnt, firms, lab) ==
    IF firms = <<>> THEN cnt
    ELSE LET next == CountThemes(cnt, FirmReviews(Head(firms)), lab)
         IN  Eager(next, CountThemesOverall(next, Tail(firms), lab))

ThemesOverall(firms) ==
    [top_positive_categories |->
         MostCommon(CountThemesOverall(<<>>, firms, S_positive), OVERALL_TOP_CATEGORIES),
     top_negative_categories |->
         MostCommon(CountThemesOverall(<<>>, firms, S_negative), OVERALL_TOP_CATEGORIES)]

\* The report of build_analysis; skipped names the inputs the loader skipped.
build_analysis(firms, dq, skipped) ==
    [coverage |-> Coverage(firms, dq),
     rankings |-> [by_avg_rating_5 |-> ByAvgRating5(FirmStats(firms)),
                   by_avg_sentiment_score |-> ByAvgSentimentScore(FirmStats(firms))],
     sentiment_distribution |-> SentimentDistribution(firms),
     themes_overall |-> ThemesOverall(firms),
     themes_by_firm |-> ThemesByFirm(firms),
     limitations |->
         [i \in 1..Len(skipped) |-> <<"Skipped invalid JSON input: ", skipped[i]>>]
         \o <<<<"Most firms have limited or zero publicly captured reviews in the provided inputs; rankings may be unstable for low n.">>>>]

-----------------------------------------------------------------------------
(* The inputs: source documents drawn from a pool *)

List(items) == [kind |-> "list", items |-> items]
Absent == [kind |-> "absent", items |-> <<>>]
Null == [kind |-> "null", items |-> <<>>]

NoReview ==
    [platform |-> None, review_id |-> None, author_name |-> None,
     date_published |-> None, date_raw |-> None,
     rating_value |-> <<>>, rating_scale |-> <<>>,
     review_text |-> None, source_url |-> None,
     sentiment_label |-> None, sentiment_score |-> <<>>]

\* google, by Jan, 5/5, "Fast help", labelled positive, no review id
RA ==
    [NoReview EXCEPT !.platform = <<103, 111, 111, 103, 108, 101>>,
                     !.author_name = <<74, 97, 110>>,
                     !.rating_value = <<5>>, !.rating_scale = <<5>>,
                     !.review_text = <<70, 97, 115, 116, 32, 104, 101, 108, 112>>,
                     !.sentiment_label = S_positive]

\* RA as another source spells it: "Google Maps", " JAN", "fast  HELP "
RAv ==
    [RA EXCEPT !.platform = P_Google,
               !.author_name = <<32, 74, 65, 78>>,
               !.review_text = <<102, 97, 115, 116, 32, 32, 72, 69, 76, 80, 32>>]

\* RA with the source URL " "
RAu == [RA EXCEPT !.source_url = <<32>>]

\* RA without its text
RAn == [RA EXCEPT !.review_text = None]

\* RA with the review id "r9"
RB == [RA EXCEPT !.review_id = <<114, 57>>]

\* RB without its text
RBn == [RB EXCEPT !.review_text = None]

\* RB by another author, "Eva", labelled negative, text "Slow reply"
RBt ==
    [RB EXCEPT !.author_name = <<69, 118, 97>>,
               !.review_text = <<83, 108, 111, 119, 32, 114, 101, 112, 108, 121>>,
               !.sentiment_label = S_negative]

\* RB with the published date "2024" and a sentiment score
RBd == [RB EXCEPT !.date_published = <<50, 48, 50, 52>>, !.sentiment_score = <<1>>]

\* RB on facebook
RC == [RB EXCEPT !.platform = <<102, 97, 99, 101, 98, 111, 111, 107>>]

\* The i-th of a run of reviews that differ in their review id "r<i>" alone
RBulk(i) == [RAn EXCEPT !.review_id = <<114>> \o StrOfNat(i)]

W_ab == <<104, 116, 116, 112, 58, 47, 47, 97, 98, 46, 99, 122>>    \* "http://ab.cz"

Firm(name, website, id, offices) ==
    [firm_name |-> name, website |-> website, firm_id |-> id, offices |-> offices]

Office(city, address, profiles, reviews) ==
    [city |-> city, address |-> address, platform_profiles |-> profiles,
     reviews |-> reviews]

Profile(platform, url) == [platform |-> platform, source_url |-> url]

\* "Ab", http://ab.cz, no id
FA(offices) == Firm(<<65, 98>>, W_ab, None, offices)
\* "Ab Law", "HTTP://ab.CZ ", no id
FAv(offices) ==
    Firm(<<65, 98, 32, 76, 97, 119>>,
         <<72, 84, 84, 80, 58, 47, 47, 97, 98, 46, 67, 90, 32>>, None, offices)
\* no name, http://ab.cz, id "z9"
FAi(offices) == Firm(None, W_ab, <<122, 57>>, offices)
\* "Ab", http://ab.cz, id "a7"
FAj(offices) == Firm(<<65, 98>>, W_ab, <<97, 55>>, offices)
\* "Ab", http://ab.cz, id "a10"
FAk(offices) == Firm(<<65, 98>>, W_ab, <<97, 49, 48>>, offices)
\* "Ne  Co" with an accent, no website, no id
FB(offices) == Firm(<<78, 233, 32, 32, 67, 111>>, None, None, offices)
\* "ne co" with an accent, the website "  ", no id
FBv(offices) == Firm(<<110, 233, 32, 99, 111>>, <<32, 32>>, None, offices)
\* nothing known
FN(offices) == Firm(None, None, None, offices)

S_Brno == <<66, 114, 110, 111>>    \* "Brno"

\* Brno, "Na 1"
OA(pps, rs) == Office(S_Brno, <<78, 97, 32, 49>>, pps, rs)
\* "brno ", "NA 1"
OAv(pps, rs) == Office(<<98, 114, 110, 111, 32>>, <<78, 65, 32, 49>>, pps, rs)
\* Brno, no address
OC(pps, rs) == Office(S_Brno, None, pps, rs)
\* Brno, the address " "
OCw(pps, rs) == Office(S_Brno, <<32>>, pps, rs)
\* Brno, "Za 2"
OX(pps, rs) == Office(S_Brno, <<90, 97, 32, 50>>, pps, rs)
\* neither city nor address
ON(pps, rs) == Office(None, None, pps, rs)

PP1  == Profile(<<103, 111, 111, 103, 108, 101>>, <<117, 49>>)    \* google, "u1"
PP1v == Profile(P_Google, <<117, 49>>)                            \* Google Maps, "u1"
PPn  == Profile(<<103, 111, 111, 103, 108, 101>>, None)           \* google, no URL

Doc(firms) == [firms |-> firms]

\* A document with one firm that has one office
Doc1(F(_), office) == Doc(List(<<F(List(<<office>>))>>))

\* The reviews of the firm that reaches the minimum of dataset_quality
BulkReviews == REVIEWS_PER_FIRM_MIN

\* The source documents: one firm under several spellings, ids and offices,
\* firms keyed by name and by nothing, collections absent, null and empty
SourcePool ==
    { Doc1(FA,  OA(List(<<PP1>>), List(<<RA>>))),
      Doc1(FAv, OAv(List(<<PP1v, PPn>>), List(<<RAv, RB>>))),
      Doc1(FAi, OA(Absent, List(<<RAu, RBd>>))),
      Doc1(FAj, OCw(Absent, List(<<RBn>>))),
      Doc(List(<<FA(List(<<OC(Absent, List(<<RB>>)), OX(Absent, List(<<RC>>))>>))>>)),
      Doc1(FA,  OA(Absent, List(<<RBn, RBt, RB>>))),
      Doc1(FA,  OA(Absent, List(<<RBn>>))),
      Doc1(FAk, OA(Absent, List(<<RA, RB>>))),
      Doc(List(<<FB(List(<<ON(Absent, List(<<RAn>>))>>)),
                 FN(List(<<ON(Absent, List(<<RB>>))>>))>>)),
      Doc1(FBv, ON(List(<<>>), List(<<>>))),
      Doc(Absent),
      Doc(Null),
      Doc(List(<<FA(Null), FB(Absent)>>)),
      Doc1(FA,  OA(Null, Null)),
      Doc1(FA,  OA(Absent, List([i \in 1..BulkReviews |-> RBulk(i)]))) }

MaxSources == 2

RECURSIVE SeqsUpTo(_, _)
SeqsUpTo(S, n) ==
    IF n = 0 THEN {<<>>}
    ELSE LET shorter == SeqsUpTo(S, n - 1)
         IN  shorter \cup {Append(s, x) : s \in shorter, x \in S}

\* The argument lists of merge_datasets the model explores. The empty list is
\* a direct call of merge_datasets: main stops before the merge when no input
\* parses.
SourceLists == SeqsUpTo(SourcePool, MaxSources)

-----------------------------------------------------------------------------
(* The inputs of the ranking: one document with many firms *)

\* A review with the id "r<j>", the rating rv/rs and the sentiment score sc
RankReview(j, rv, rs, sc) ==
    [NoReview EXCEPT !.review_id = <<114>> \o StrOfNat(j),
                     !.rating_value = rv, !.rating_scale = rs,
                     !.sentiment_score = sc]

\* Firm templates: a name and the (rating_value, rating_scale, sentiment_score)
\* of each review.
T_Pad  == [name |-> <<80, 97, 100>>,      \* "Pad": 3 ratings of 4, 3 scores of 0
           revs |-> << <<<<4>>, <<5>>, <<0>>>>, <<<<4>>, <<5>>, <<0>>>>,
                       <<<<4>>, <<5>>, <<0>>>> >>]
T_Two  == [name |-> <<65, 98, 99>>,       \* "Abc": 2 ratings of 5 and a scale of 0
           revs |-> << <<<<5>>, <<5>>, <<1>>>>, <<<<5>>, <<5>>, <<1>>>>,
                       <<<<5>>, <<0>>, <<>>>> >>]
T_Tie  == [name |-> <<65, 98, 99>>,       \* "Abc": 3 ratings of 4, 3 scores of 1
           revs |-> << <<<<4>>, <<5>>, <<1>>>>, <<<<8>>, <<10>>, <<1>>>>,
                       <<<<4>>, <<5>>, <<1>>>> >>]
T_Four == [name |-> <<90, 101, 100>>,     \* "Zed": 4 ratings of 4, 3 scores
           revs |-> << <<<<4>>, <<5>>, <<1>>>>, <<<<4>>, <<5>>, <<0>>>>,
                       <<<<4>>, <<5>>, <<-1>>>>, <<<<8>>, <<10>>, <<>>>> >>]
T_Low  == [name |-> <<76, 111, 119>>,     \* "Low": ratings 3, 4, 4, scores -1, -1, 0
           revs |-> << <<<<3>>, <<5>>, <<-1>>>>, <<<<4>>, <<5>>, <<-1>>>>,
                       <<<<4>>, <<5>>, <<0>>>> >>]
T_Top  == [name |-> None,                 \* no name: 3 ratings of 5, no scale on a 4th
           revs |-> << <<<<5>>, <<5>>, <<>>>>, <<<<5>>, <<5>>, <<>>>>,
                       <<<<10>>, <<10>>, <<>>>>, <<<<1>>, <<>>, <<>>>> >>]

\* The templates of the firms that precede the run of "Pad" firms
Templates == {T_Two, T_Tie, T_Four, T_Low, T_Top}

\* The firm at position i of the document: its website "f<i>.cz" is its own.
RankFirm(t, i) ==
    Firm(t.name, <<102>> \o StrOfNat(i) \o <<46, 99, 122>>, None,
         List(<<Office(S_Brno, None, Absent,
                       List([j \in 1..Len(t.revs) |->
                               RankReview(j, t.revs[j][1], t.revs[j][2], t.revs[j][3])]))>>))

MaxFree == 2
MaxPad == 30

PadCounts == {0, MaxPad - 1, MaxPad}

\* Up to MaxFree firms of any template, then a run of "Pad" firms
RankDocs ==
    { Doc(List([i \in 1..(Len(pre) + n) |->
                   IF i <= Len(pre) THEN RankFirm(pre[i], i) ELSE RankFirm(T_Pad, i)])) :
          pre \in SeqsUpTo(Templates, MaxFree), n \in PadCounts }

SkippedPool == {<<>>, <<"source_2.json: Expecting value">>}

-----------------------------------------------------------------------------
(* The state machine *)

VARIABLES
    datasets,     \* the argument of merge_datasets
    pos,          \* the number of sources folded so far
    firms_map,    \* the index firm key -> firm, in insertion order
    returned,     \* <<>> until merge_datasets returns, then <<its result>>
    analysis,     \* <<>> until build_analysis returns, then <<its report>>
    pc            \* "fold", "merged", "analysed", or "raised"

vars == <<datasets, pos, firms_map, returned, analysis, pc>>

Start(inputs) ==
    /\ datasets \in inputs
    /\ pos = 0
    /\ firms_map = <<>>
    /\ returned = <<>>
    /\ analysis = <<>>
    /\ pc = "fold"

Init == Start(SourceLists)

InitRank == Start({<<d>> : d \in RankDocs})

\* One iteration of the loop over the sources; an exception ends the call.
FoldSource ==
    /\ pc = "fold"
    /\ pos < Len(datasets)
    /\ IF SourceRaises(datasets[pos + 1])
       THEN /\ pc' = "raised"
            /\ UNCHANGED <<pos, firms_map>>
       ELSE /\ firms_map' = MergeSource(firms_map, datasets[pos + 1])
            /\ pos' = pos + 1
            /\ pc' = pc
    /\ UNCHANGED <<datasets, returned, analysis>>

\* The finalisation of the index and the return of merge_datasets
Finalize ==
    /\ pc = "fold"
    /\ pos = Len(datasets)
    /\ returned' = <<[firms |-> MergedFirms(firms_map),
                      dataset_quality |-> DatasetQuality(MergedFirms(firms_map))]>>
    /\ pc' = "merged"
    /\ UNCHANGED <<datasets, pos, firms_map, analysis>>

\* build_analysis on the result of the merge
BuildAnalysis ==
    /\ pc = "merged"
    /\ \E skipped \in SkippedPool :
           analysis' = <<build_analysis(returned[1].firms, returned[1].dataset_quality,
                                        skipped)>>
    /\ pc' = "analysed"
    /\ UNCHANGED <<datasets, pos, firms_map, returned>>

Next == FoldSource \/ Finalize \/ BuildAnalysis

Spec == Init /\ [][Next]_vars

SpecRank == InitRank /\ [][Next]_vars

-----------------------------------------------------------------------------
(* What the sources say, read off the input documents *)

\* merge_datasets has returned
Done == pc = "merged"

\* The sources folded so far
Seen == SubSeq(datasets, 1, pos)

ListOf(c) == IF c.kind = "list" THEN c.items ELSE <<>>

\* The firm records of the sources dss, in the order they are observed
ObsFirms(dss) == Flatten([i \in 1..Len(dss) |-> ListOf(dss[i].firms)])

\* The office records observed for the firm key fk
ObsOffices(dss, fk) ==
    LET fs == SelectSeq(ObsFirms(dss), LAMBDA f : firm_key(f) = fk)
    IN  Flatten([i \in 1..Len(fs) |-> ListOf(fs[i].offices)])

\* The review records observed for the office key ok of the firm key fk
ObsReviews(dss, fk, ok) ==
    LET os == SelectSeq(ObsOffices(dss, fk), LAMBDA o : office_key(o) = ok)
    IN  Flatten([i \in 1..Len(os) |-> ListOf(os[i].reviews)])

KeyOf(r) == review_dedupe_key(normalize_review(r))

ScoreOf(r) == completeness_score(normalize_review(r))

\* The positions <<a, b>> of the offices of the index fmap
OfficesOf(fmap) ==
    UNION {{<<a, b>> : b \in 1..Len(fmap[a].offices)} : a \in 1..Len(fmap)}

\* The earliest of the reviews rs that no review of rs beats in completeness
EarliestMax(rs) ==
    LET sc == [i \in 1..Len(rs) |-> ScoreOf(rs[i])]
        i  == CHOOSE i \in 1..Len(rs) :
                  /\ \A j \in 1..Len(rs) : sc[j] <= sc[i]
                  /\ \A j \in 1..(i - 1) : sc[j] < sc[i]
    IN  Eager(sc, rs[i])

-----------------------------------------------------------------------------
(* C1 *)

\* C1: after folding any prefix of the sources, every office stores, for each
\* review key observed in it, exactly one review, and that review is the
\* earliest observed one among those of maximal completeness score for the
\* key (an equally complete later review never replaces it); no other key
\* is stored.
C1_FirstSeenWinsOnTie ==
    pc # "raised" =>
    \A x \in OfficesOf(firms_map) :
        LET fm   == firms_map[x[1]]
            rmap == fm.offices[x[2]].reviews_map
            obs  == ObsReviews(Seen, fm.key, fm.offices[x[2]].key)
            keys == [i \in 1..Len(obs) |-> KeyOf(obs[i])]
        IN  Eager(keys,
              /\ \A k \in {keys[i] : i \in 1..Len(obs)} :
                     LET same == {i \in 1..Len(obs) : keys[i] = k}
                         of_k == SelectSeq([i \in 1..Len(obs) |-> <<i, obs[i]>>],
                                           LAMBDA e : e[1] \in same)
                     IN  /\ Cardinality({j \in 1..Len(rmap) : rmap[j].key = k}) = 1
                         /\ rmap[IndexOfKey(rmap, k)].review
                                = normalize_review(
                                      EarliestMax([i \in 1..Len(of_k) |-> of_k[i][2]]))
              /\ \A j \in 1..Len(rmap) : \E i \in 1..Len(obs) : keys[i] = rmap[j].key)

\* A less complete review was replaced by a more complete one, and a later
\* different review of the same key and the same score left it in place.
C1_Witness ==
    /\ Done
    /\ \E x \in OfficesOf(firms_map) :
           LET fm   == firms_map[x[1]]
               rmap == fm.offices[x[2]].reviews_map
               obs  == ObsReviews(datasets, fm.key, fm.offices[x[2]].key)
           IN  \E i, j, l \in 1..Len(obs) :
                   /\ i < j /\ j < l
                   /\ KeyOf(obs[i]) = KeyOf(obs[j]) /\ KeyOf(obs[j]) = KeyOf(obs[l])
                   /\ ScoreOf(obs[i]) < ScoreOf(obs[j])
                   /\ ScoreOf(obs[j]) = ScoreOf(obs[l])
                   /\ normalize_review(obs[j]) # normalize_review(obs[l])
                   /\ rmap[IndexOfKey(rmap, KeyOf(obs[j]))].review = normalize_review(obs[j])

-----------------------------------------------------------------------------
(* C2 *)

LacksText(r) == Strip(OrEmptyStr(r.review_text)) = <<>>

\* r1 and r2 agree on everything but the review id and the text
SameButIdAndText(r1, r2) ==
    [r1 EXCEPT !.review_id = None, !.review_text = None]
        = [r2 EXCEPT !.review_id = None, !.review_text = None]

\* Exactly one of the two has a review id, exactly one lacks text, and they
\* agree on the rest
IdOnOneTextOnOne(r1, r2) ==
    /\ SameButIdAndText(r1, r2)
    /\ Truthy(r1.review_id) # Truthy(r2.review_id)
    /\ LacksText(r1) # LacksText(r2)

\* Both carry the same review id, exactly one lacks text, and they agree on
\* the rest
SameIdTextOnOne(r1, r2) ==
    /\ SameButIdAndText(r1, r2)
    /\ Truthy(r1.review_id) /\ r1.review_id = r2.review_id
    /\ LacksText(r1) # LacksText(r2)

\* The review records the sources hold for the office at x
ObsOf(x) ==
    ObsReviews(datasets, firms_map[x[1]].key, firms_map[x[1]].offices[x[2]].key)

\* The offices for which the sources hold exactly two review records
PairOffices == {x \in OfficesOf(firms_map) : Len(ObsOf(x)) = 2}

StoredOf(x) == firms_map[x[1]].offices[x[2]].reviews_map

\* C2 as stated: two review records of one office, of which one has a review
\* id and one lacks text and which agree otherwise, merge into exactly one
\* review, the one of the higher completeness score.
C2_IdOnOneYieldsOne ==
    Done =>
    \A x \in PairOffices :
        IdOnOneTextOnOne(ObsOf(x)[1], ObsOf(x)[2]) =>
            /\ Len(StoredOf(x)) = 1
            /\ StoredOf(x)[1].review = normalize_review(EarliestMax(ObsOf(x)))

\* C2, amended: two review records of one office that carry the same review
\* id (on the same platform) and differ only in that one lacks text merge
\* into exactly one review, the one with the text, which has the higher
\* completeness score; two records of which only one carries a review id
\* have different keys and both are kept.
C2_SameIdYieldsOne ==
    Done =>
    \A x \in PairOffices :
        LET r1 == ObsOf(x)[1]
            r2 == ObsOf(x)[2]
            withText == IF LacksText(r1) THEN r2 ELSE r1
        IN  /\ SameIdTextOnOne(r1, r2) =>
                   /\ Len(StoredOf(x)) = 1
                   /\ StoredOf(x)[1].review = normalize_review(withText)
                   /\ \A i \in 1..2 : ScoreOf(ObsOf(x)[i]) <= ScoreOf(withText)
            /\ IdOnOneTextOnOne(r1, r2) => Len(StoredOf(x)) = 2

\* The record without text was observed first and the record with the same
\* review id and the text replaced it.
C2_Witness ==
    /\ Done
    /\ \E x \in PairOffices :
           /\ SameIdTextOnOne(ObsOf(x)[1], ObsOf(x)[2])
           /\ LacksText(ObsOf(x)[1])
           /\ Len(StoredOf(x)) = 1
           /\ StoredOf(x)[1].review = normalize_review(ObsOf(x)[2])
-----------------------------------------------------------------------------
(* C3 *)

\* The office of the returned document at the position x
ExportedOffice(x) == returned[1].firms[x[1]].offices[x[2]]

\* The non-empty addresses the sources give for the office at x, in the order
\* they are observed
AddressesOf(x) ==
    LET fm == firms_map[x[1]]
        os == SelectSeq(ObsOffices(datasets, fm.key),
                        LAMBDA o : office_key(o) = fm.offices[x[2]].key)
    IN  SelectSeq([i \in 1..Len(os) |-> os[i].address], Truthy)

-----------------------------------------------------------------------------
(* C4 *)

\* The normalized components of a review that carries no review id
Components(r) ==
    <<norm_platform(r.platform), norm_text(r.author_name),
      OrEmptyStr(r.date_published), OrEmptyStr(r.date_raw),
      r.rating_value, r.rating_scale,
      norm_text(r.review_text), norm_text(r.source_url)>>

\* Two sources of one firm and one office each, the firms sharing a website:
\* the first holds one review without a review id, the second an exact
\* duplicate of it followed by a review with a review id.
DuplicatePlusNew ==
    /\ Len(datasets) = 2
    /\ \A i \in 1..2 : /\ Len(ListOf(datasets[i].firms)) = 1
                        /\ Len(ListOf(ListOf(datasets[i].firms)[1].offices)) = 1
    /\ LET f1 == ListOf(datasets[1].firms)[1]
           f2 == ListOf(datasets[2].firms)[1]
           o1 == ListOf(f1.offices)[1]
           o2 == ListOf(f2.offices)[1]
           r1 == ListOf(o1.reviews)
           r2 == ListOf(o2.reviews)
       IN  /\ Truthy(f1.website) /\ f1.website = f2.website
           /\ office_key(o1) = office_key(o2)
           /\ Len(r1) = 1 /\ Len(r2) = 2
           /\ ~Truthy(r1[1].review_id)
           /\ r2[1] = r1[1]
           /\ Truthy(r2[2].review_id)

\* C4: two reviews without a review id observed in the same office whose
\* normalized platform, author, dates, rating, text and source URL are
\* identical are stored as exactly one review; and two sources sharing a
\* firm website, the second holding an exact duplicate of the first's review
\* plus one new review with a review id, merge into one firm with exactly 2
\* reviews.
C4_IdenticalComponentsCollapse ==
    /\ pc # "raised" =>
           \A x \in OfficesOf(firms_map) :
               LET fm   == firms_map[x[1]]
                   rmap == fm.offices[x[2]].reviews_map
                   obs  == ObsReviews(Seen, fm.key, fm.offices[x[2]].key)
                   noid == SelectSeq(obs, LAMBDA r : ~Truthy(r.review_id))
                   comp == [i \in 1..Len(noid) |-> Components(noid[i])]
                   keys == [i \in 1..Len(noid) |-> KeyOf(noid[i])]
               IN  Eager(<<comp, keys>>,
                     \A i, j \in 1..Len(noid) :
                         (i < j /\ comp[i] = comp[j])
                         => Cardinality({e \in 1..Len(rmap) :
                                            rmap[e].key \in {keys[i], keys[j]}}) = 1)
    /\ (Done /\ DuplicatePlusNew) =>
           /\ Len(returned[1].firms) = 1
           /\ returned[1].firms[1].collection_summary.reviews_collected_total = 2
           /\ Len(Flatten([b \in 1..Len(returned[1].firms[1].offices) |->
                               returned[1].firms[1].offices[b].reviews])) = 2

\* The two sources of the scenario have been merged.
C4_Witness == Done /\ DuplicatePlusNew /\ Len(returned[1].firms[1].offices[1].reviews) = 2

-----------------------------------------------------------------------------
(* C6 *)

\* The host component of a website address: surrounding whitespace and a
\* scheme "http://" or "https://" in any letter case removed, up to the
\* first "/"
UrlHost(w) ==
    LET s == Strip(w)
        l == Lower(s)
        rest == IF StartsWith(l, <<104, 116, 116, 112, 115, 58, 47, 47>>)
                THEN SubSeq(s, 9, Len(s))
                ELSE IF StartsWith(l, <<104, 116, 116, 112, 58, 47, 47>>)
                     THEN SubSeq(s, 8, Len(s))
                     ELSE s
    IN  BeforeSlash(rest)

\* The external ids the sources give for the firm key fk
IdsOf(fk) ==
    LET fs == SelectSeq(ObsFirms(datasets), LAMBDA f : firm_key(f) = fk)
    IN  {fs[i].firm_id : i \in 1..Len(fs)} \ {None, <<>>}

\* C6: the firm_id of a finalized firm is the shortest external id collected
\* for it, the lexicographically least among the shortest; without an
\* external id it is the slug of the host of the website, without a website
\* host the slug of the firm name, and without a name "unknown".
C6_FirmIdRule ==
    Done =>
    \A a \in 1..Len(firms_map) :
        LET x   == returned[1].firms[a]
            ids == IdsOf(firms_map[a].key)
        IN  IF ids # {}
            THEN /\ x.firm_id \in ids
                 /\ \A y \in ids :
                        \/ Len(x.firm_id) < Len(y)
                        \/ Len(x.firm_id) = Len(y) /\ ~StrLess(y, x.firm_id)
            ELSE IF x.website # None /\ UrlHost(x.website) # <<>>
                 THEN x.firm_id = slugify(UrlHost(x.website))
                 ELSE IF Truthy(x.firm_name)
                      THEN x.firm_id = slugify(x.firm_name)
                      ELSE x.firm_id = S_unknown
-----------------------------------------------------------------------------
(* C7 *)

\* The keys of the index fmap: the firm keys, the office keys per firm, and
\* the review keys per office with the completeness score of the survivor
KeyView(fmap) ==
    [firms   |-> {fmap[a].key : a \in 1..Len(fmap)},
     offices |-> {<<fmap[x[1]].key, fmap[x[1]].offices[x[2]].key>> : x \in OfficesOf(fmap)},
     reviews |-> UNION {{<<fmap[x[1]].key, fmap[x[1]].offices[x[2]].key,
                           fmap[x[1]].offices[x[2]].reviews_map[j].key,
                           completeness_score(fmap[x[1]].offices[x[2]].reviews_map[j].review)>> :
                             j \in 1..Len(fmap[x[1]].offices[x[2]].reviews_map)} :
                        x \in OfficesOf(fmap)}]

\* The source lists that are permutations of the merged one
Reorderings ==
    {[i \in 1..Len(datasets) |-> datasets[p[i]]] : p \in Permutations(1..Len(datasets))}

\* The stored reviews of the index fmap
StoredReviews(fmap) ==
    UNION {{fmap[x[1]].offices[x[2]].reviews_map[j].review :
                j \in 1..Len(fmap[x[1]].offices[x[2]].reviews_map)} :
           x \in OfficesOf(fmap)}

\* C7: merging any permutation of the source list gives the same firm keys,
\* the same office keys per firm, the same review keys per office, and for
\* every review key a survivor of the same completeness score.
C7_OrderAffectsOnlyTieBreaks ==
    Done => \A dss \in Reorderings : KeyView(FoldSources(<<>>, dss)) = KeyView(firms_map)

\* The other order of the two merged sources keeps another review for some
\* key, and a less complete review of the sources has been replaced.
C7_Witness ==
    /\ Done
    /\ Len(datasets) = 2
    /\ \E dss \in Reorderings :
           StoredReviews(FoldSources(<<>>, dss)) # StoredReviews(firms_map)
    /\ \E x \in OfficesOf(firms_map) :
           \E i \in 1..Len(ObsOf(x)) :
               ScoreOf(ObsOf(x)[i])
                   < completeness_score(
                         StoredOf(x)[IndexOfKey(StoredOf(x), KeyOf(ObsOf(x)[i]))].review)

-----------------------------------------------------------------------------
(* C8 *)

\* The documents with every absent or null collection replaced by an empty
\* list
CleanOffice(o) ==
    [o EXCEPT !.platform_profiles = List(ListOf(o.platform_profiles)),
              !.reviews = List(ListOf(o.reviews))]

CleanFirm(f) ==
    [f EXCEPT !.offices =
        List([i \in 1..Len(ListOf(f.offices)) |-> CleanOffice(ListOf(f.offices)[i])])]

CleanSource(ds) ==
    [ds EXCEPT !.firms =
        List([i \in 1..Len(ListOf(ds.firms)) |-> CleanFirm(ListOf(ds.firms)[i])])]

IsMissing(c) == c.kind \in {"absent", "null"}

\* C8: the merge never raises; a missing or null firms, offices, reviews or
\* platform_profiles collection counts as an empty one, so the result is the
\* one of the sources with these collections empty; and zero sources give
\* zero firms, firms_collected = 0 and reviews_collected = 0.
C8_MissingCollectionsAreEmpty ==
    /\ pc # "raised"
    /\ Done => returned[1]
                  = merge_datasets([i \in 1..Len(datasets) |-> CleanSource(datasets[i])])
    /\ (Done /\ datasets = <<>>) =>
           /\ returned[1].firms = <<>>
           /\ returned[1].dataset_quality.firms_collected = 0
           /\ returned[1].dataset_quality.reviews_collected = 0

\* Sources with a null firms collection, a firm with null offices and an
\* office with null reviews and null profiles have been merged.
C8_Witness ==
    /\ Done
    /\ \E i \in 1..Len(datasets) : datasets[i].firms.kind = "null"
    /\ \E f \in {ObsFirms(datasets)[i] : i \in 1..Len(ObsFirms(datasets))} :
           \/ f.offices.kind = "null"
           \/ \E j \in 1..Len(ListOf(f.offices)) :
                  /\ ListOf(f.offices)[j].reviews.kind = "null"
                  /\ ListOf(f.offices)[j].platform_profiles.kind = "null"

-----------------------------------------------------------------------------
(* C9 *)

TotalOf(x) == x.collection_summary.reviews_collected_total

\* C9: in the returned document the total of a firm is the number of reviews
\* of its exported offices, reviews_collected is the sum of the totals,
\* firms_below_min_reviews lists the firm_id of the firms whose total is
\* below 10, one entry per such firm in the order of the firms, and a firm
\* carries the zero-review warning exactly when its total is 0.
C9_CountsAgree ==
    Done =>
    LET firms == returned[1].firms
        dq    == returned[1].dataset_quality
        below == SelectSeq(firms, LAMBDA x : TotalOf(x) < 10)
    IN  /\ \A a \in 1..Len(firms) :
               /\ TotalOf(firms[a])
                      = SumSeq([b \in 1..Len(firms[a].offices) |->
                                   Len(firms[a].offices[b].reviews)])
               /\ firms[a].collection_summary.warnings
                      = IF TotalOf(firms[a]) = 0
                        THEN <<"No reviews present in merged sources.">>
                        ELSE <<>>
        /\ dq.firms_collected = Len(firms)
        /\ dq.reviews_collected = SumSeq([a \in 1..Len(firms) |-> TotalOf(firms[a])])
        /\ dq.firms_below_min_reviews = [i \in 1..Len(below) |-> below[i].firm_id]

\* A firm with exactly 10 reviews, which is not listed, and a firm without
\* reviews, which is listed and warned about, have been returned.
C9_Witness ==
    /\ Done
    /\ \E a, b \in 1..Len(returned[1].firms) :
           /\ TotalOf(returned[1].firms[a]) = 10
           /\ TotalOf(returned[1].firms[b]) = 0
           /\ returned[1].firms[b].collection_summary.warnings # <<>>
           /\ returned[1].dataset_quality.firms_below_min_reviews
                  = <<returned[1].firms[b].firm_id>>

-----------------------------------------------------------------------------
(* C10 *)

\* The stored review maps of the index fmap, office by office
ReviewMaps(fmap) ==
    [a \in 1..Len(fmap) |->
        [b \in 1..Len(fmap[a].offices) |-> fmap[a].offices[b].reviews_map]]

\* C10: merging the source list followed by itself returns the same firms
\* and the same dataset_quality as merging the list once, and folding the
\* list again into the index adds no review and replaces none.
C10_RepetitionIdempotent ==
    Done =>
    /\ merge_datasets(datasets \o datasets) = returned[1]
    /\ ReviewMaps(FoldSources(firms_map, datasets)) = ReviewMaps(firms_map)

\* Two sources with profiles and with reviews of equal keys and scores have
\* been merged.
C10_Witness ==
    /\ Done
    /\ Len(datasets) = 2
    /\ \E x \in OfficesOf(firms_map) :
           /\ Len(ExportedOffice(x).platform_profiles) >= 1
           /\ Len(firms_map[x[1]].offices[x[2]].platform_profiles)
                  > Len(ExportedOffice(x).platform_profiles)
           /\ Len(ExportedOffice(x).reviews) >= 2
           /\ Len(ObsOf(x)) > Len(ExportedOffice(x).reviews)
-----------------------------------------------------------------------------
(* C5 *)

\* The averages and sample sizes of a returned firm, from its reviews
RatingsOf(f) ==
    LET rated == SelectSeq(FirmReviews(f), LAMBDA r : rating_to5(r) # <<>>)
    IN  [i \in 1..Len(rated) |-> rating_to5(rated[i])[1]]

ScoresOf(f) ==
    LET scored == SelectSeq(FirmReviews(f), LAMBDA r : r.sentiment_score # <<>>)
    IN  [i \in 1..Len(scored) |-> Rat(scored[i].sentiment_score[1], 1)]

\* A firm as a ranking sees it: its average, its sample size, its name
ByRating(f) ==
    [avg |-> Average(RatingsOf(f)), n |-> Len(RatingsOf(f)),
     name |-> OrEmptyStr(f.firm_name)]

ByScore(f) ==
    [avg |-> Average(ScoresOf(f)), n |-> Len(ScoresOf(f)),
     name |-> OrEmptyStr(f.firm_name)]

\* a may stand before b: a higher average, or the same average and a larger
\* sample, or the same of both and a name that is not greater
MayPrecede(a, b) ==
    \/ RatLess(b.avg[1], a.avg[1])
    \/ /\ RatEq(a.avg[1], b.avg[1])
       /\ \/ a.n > b.n
          \/ a.n = b.n /\ ~StrLess(b.name, a.name)

\* The position in the returned firms of the firm with the id fid
FirmAt(fid) == CHOOSE a \in 1..Len(returned[1].firms) : returned[1].firms[a].firm_id = fid

\* The ranking rk lists, without repetition, firms of at least 3 samples;
\* all of them if they are at most 30 and 30 of them otherwise, none left
\* out that had to precede a listed one; in the order of MayPrecede.
WellRanked(rk, View(_)) ==
    LET firms == returned[1].firms
        view  == [a \in 1..Len(firms) |-> View(firms[a])]
        qual  == {a \in 1..Len(firms) : view[a].n >= 3}
        at    == [i \in 1..Len(rk) |-> FirmAt(rk[i].firm_id)]
    IN  Eager(<<view, at>>,
          /\ \A i \in 1..Len(rk) : at[i] \in qual
          /\ \A i, j \in 1..Len(rk) : i # j => at[i] # at[j]
          /\ Len(rk) = Min(30, Cardinality(qual))
          /\ \A i, j \in 1..Len(rk) : i < j => MayPrecede(view[at[i]], view[at[j]])
          /\ \A a \in qual \ {at[i] : i \in 1..Len(rk)} :
                 \A i \in 1..Len(rk) : MayPrecede(view[at[i]], view[a]))

\* C5: by_avg_rating_5 lists only firms with at least 3 convertible ratings
\* and by_avg_sentiment_score only firms with at least 3 sentiment scores;
\* every such firm is listed unless the cap of 30 entries cuts it; and each
\* ranking is in the order of descending average, then descending sample
\* size, then ascending firm name, and reports the sample size and the
\* average rounded to 3 decimals.
C5_RankingsThresholdCapOrder ==
    pc = "analysed" =>
    LET firms == returned[1].firms
        byr   == analysis[1].rankings.by_avg_rating_5
        bys   == analysis[1].rankings.by_avg_sentiment_score
    IN  /\ WellRanked(byr, ByRating)
        /\ WellRanked(bys, ByScore)
        /\ \A i \in 1..Len(byr) :
               /\ byr[i].ratings_n = ByRating(firms[FirmAt(byr[i].firm_id)]).n
               /\ byr[i].avg_rating_5
                      = Round3(ByRating(firms[FirmAt(byr[i].firm_id)]).avg[1])
        /\ \A i \in 1..Len(bys) :
               /\ bys[i].scored_n = ByScore(firms[FirmAt(bys[i].firm_id)]).n
               /\ bys[i].avg_sentiment_score
                      = Round3(ByScore(firms[FirmAt(bys[i].firm_id)]).avg[1])

\* More than 30 firms have at least 3 ratings, so the cap cuts one of them; a
\* firm with exactly 2 ratings is left out, one with exactly 3 is listed; and
\* two listed firms of the same average differ in their sample size.
C5_Witness ==
    /\ pc = "analysed"
    /\ LET firms == returned[1].firms
           byr   == analysis[1].rankings.by_avg_rating_5
       IN  /\ Cardinality({a \in 1..Len(firms) : ByRating(firms[a]).n >= 3}) > 30
           /\ Len(byr) = 30
           /\ \E a \in 1..Len(firms) :
                  /\ ByRating(firms[a]).n = 2
                  /\ \A i \in 1..Len(byr) : byr[i].firm_id # firms[a].firm_id
           /\ \E i \in 1..Len(byr) : byr[i].ratings_n = 3
           /\ \E i \in 1..Len(byr) :
                  /\ i < Len(byr)
                  /\ byr[i].avg_rating_5 = byr[i + 1].avg_rating_5
                  /\ byr[i].ratings_n > byr[i + 1].ratings_n

=============================================================================
